---- MODULE Spec2Model ----
(***************************************************************************)
(* Booking backend of src/app.py: the sqlite store (bookings,             *)
(* technicians, seeded services), the shared-secret admin gate, the       *)
(* booking and assignment handlers and the optional Twilio dispatch.      *)
(*                                                                         *)
(* Python strings are sequences of one-character strings.  A JSON value   *)
(* (a body field, a header, a query argument, a column) is a record       *)
(* [k, s, n]: k = "null" (None / absent / SQL NULL), "str" (text s) or    *)
(* "int" (number n).  The text fields of a booking body and the ids of an  *)
(* assignment body are JSON strings or null.                               *)
(*                                                                         *)
(* A table is a function from primary key to row.  The created_at column   *)
(* is read only by ORDER BY, and a listing is the set of its rows.         *)
(* uuid.uuid4() is a random draw: a full uuid is taken to be fresh, its    *)
(* first eight characters are not.                                         *)
(*                                                                         *)
(* Spec, SpecBook and SpecAdmin answer one request at a time (req, resp,   *)
(* outbox describe the request being answered); SpecThreads runs the       *)
(* handlers on two threads, one store statement per step.  The             *)
(* specifications differ only in the requests the clients send.            *)
(***************************************************************************)
EXTENDS Integers, Sequences, FiniteSets, TLC

\* Number of distinct values of str(uuid.uuid4())[:8] considered.
NumPrefixes == 2
\* Number of distinct full uuid4 values considered for technicians.
NumTechIds == 2
VARIABLES
    bookings,      \* table bookings: id -> row
    technicians,   \* table technicians: id -> row
    env,           \* process configuration read from the environment
    outbox,        \* messages the Twilio provider accepted for the request
    req,           \* the request being answered
    resp,          \* the response to it
    threads        \* request threads of the threaded server: position and locals

vars == <<bookings, technicians, env, outbox, req, resp, threads>>

----------------------------------------------------------------------------
\* JSON / Python values

JNull == [k |-> "null", s |-> <<>>, n |-> 0]
JStr(str) == [k |-> "str", s |-> str, n |-> 0]
JInt(num) == [k |-> "int", s |-> <<>>, n |-> num]

\* Python truth value of a JSON value.
Truthy(v) == \/ v.k = "str" /\ v.s # <<>>
             \/ v.k = "int" /\ v.n # 0

\* Python `a or b`.
PyOr(a, b) == IF Truthy(a) THEN a ELSE b

IsSpace(c) == c = " "

RECURSIVE LStrip(_)
LStrip(str) == IF str # <<>> /\ IsSpace(Head(str)) THEN LStrip(Tail(str)) ELSE str

RECURSIVE RStrip(_)
RStrip(str) ==
    IF str # <<>> /\ IsSpace(str[Len(str)])
    THEN RStrip(SubSeq(str, 1, Len(str) - 1))
    ELSE str

\* str.strip()
Strip(str) == RStrip(LStrip(str))

\* Mutant: the value is not stripped.
Field_NoStrip(v) == PyOr(v, JStr(<<>>)).s

\* (data.get(f) or "").strip()
Field(v) == Strip(PyOr(v, JStr(<<>>)).s)

\* dict.get(key, "") of a key that may be absent
GetOrEmpty(v) == IF v.k = "null" THEN JStr(<<>>) ELSE v

\* str.startswith
StartsWith(str, p) == Len(str) >= Len(p) /\ SubSeq(str, 1, Len(p)) = p

----------------------------------------------------------------------------
\* Identifiers

\* "4U-" + str(uuid.uuid4())[:8]: the prefix of a random uuid.  Two draws may
\* share their first eight characters, so any value of the space may come out.
BookingId(u) == <<"4U-", u>>

BookingIdSpace == { BookingId(u) : u \in 1..NumPrefixes }

\* str(uuid.uuid4()): a full uuid, taken to be fresh when drawn.
TechId(u) == <<"uuid", u>>

TechIdSpace == { TechId(u) : u \in 1..NumTechIds }

----------------------------------------------------------------------------
\* Seeded catalogue: AUTOINCREMENT ids 1..6 in the order of the seed list.

ServiceKeys == <<"ac_clean", "wm_clean", "fridge_clean", "chimney_clean", "geyser", "microwave">>

ServiceTitles ==
    << "AC Cleaning & Servicing", "Washing Machine Cleaning", "Fridge Cleaning",
       "Chimney Deep Clean", "Geyser Repair & Service", "Microwave Repair & Service" >>

ServiceRows == [ i \in 1..Len(ServiceKeys) |-> [id |-> i, key |-> ServiceKeys[i], title |-> ServiceTitles[i]] ]

\* LEFT JOIN services s ON b.service_id = s.id: the title, or NULL.
ServiceName(sid) ==
    IF sid.k = "int" /\ sid.n \in 1..Len(ServiceRows)
    THEN JStr(<<ServiceRows[sid.n].title>>)
    ELSE JNull

Digits == {"0", "1", "2", "3", "4", "5", "6", "7", "8", "9"}

DigitValue(c) ==
    CASE c = "0" -> 0 [] c = "1" -> 1 [] c = "2" -> 2 [] c = "3" -> 3 [] c = "4" -> 4
      [] c = "5" -> 5 [] c = "6" -> 6 [] c = "7" -> 7 [] c = "8" -> 8 [] OTHER -> 9

RECURSIVE DecimalValue(_)
DecimalValue(str) ==
    IF str = <<>> THEN 0
    ELSE 10 * DecimalValue(SubSeq(str, 1, Len(str) - 1)) + DigitValue(str[Len(str)])

\* Column service_id has INTEGER affinity: text that reads as a whole number
\* is stored as that number, other text stays text.
IntegerAffinity(v) ==
    IF v.k = "str" /\ v.s # <<>> /\ \A i \in 1..Len(v.s) : v.s[i] \in Digits
    THEN JInt(DecimalValue(v.s))
    ELSE v

----------------------------------------------------------------------------
\* Responses

NoLink == [to |-> <<>>, text |-> <<>>]

Response(code, ok, error) ==
    [code |-> code, ok |-> ok, error |-> error, id |-> JNull,
     wa_link |-> NoLink, twilio_sent |-> FALSE, rows |-> {}]

Unauthorized == Response(401, FALSE, "Unauthorized")

MissingFieldsResponse == Response(400, FALSE, "Missing fields")

\* An exception no handler catches: Flask answers 500.
ServerError(exc) == Response(500, FALSE, exc)

NoRequest == [op |-> "none", hdr |-> JNull, qry |-> JNull, data |-> JNull]

NoResponse == Response(0, FALSE, "")

Request(op, hdr, qry, data) == [op |-> op, hdr |-> hdr, qry |-> qry, data |-> data]

----------------------------------------------------------------------------
\* Admin gate

\* Mutant: the gate is open while no secret is configured.
check_admin_token_OpenWhenUnset(hdr, qry) ==
    LET token == PyOr(hdr, qry)
    IN  env.ADMIN_TOKEN = <<>> \/ (Truthy(token) /\ token = JStr(env.ADMIN_TOKEN))

\* Mutant: only the header is read.
check_admin_token_HeaderOnly(hdr, qry) ==
    Truthy(hdr) /\ hdr = JStr(env.ADMIN_TOKEN)

\* token = req.headers.get("x-admin-token") or request.args.get("token")
\* return token and token == os.getenv("ADMIN_TOKEN", "")
check_admin_token(hdr, qry) ==
    LET token == PyOr(hdr, qry)
    IN  Truthy(token) /\ token = JStr(env.ADMIN_TOKEN)

----------------------------------------------------------------------------
\* Store statements

\* INSERT INTO bookings (...) VALUES (...): a new row, status as given,
\* assigned_to left NULL.
BookingRow(bid, name, phone, address, pincode, service_id) ==
    [id |-> bid, name |-> name, phone |-> phone, address |-> address,
     pincode |-> pincode, service_id |-> IntegerAffinity(service_id),
     status |-> "received", assigned_to |-> JNull]

InsertRow(tbl, row) ==
    [i \in DOMAIN tbl \cup {row.id} |-> IF i = row.id THEN row ELSE tbl[i]]

\* INSERT INTO technicians (...) VALUES (...)
TechnicianRow(tid, data) ==
    [id |-> tid, name |-> data.name, phone |-> data.phone,
     areas_csv |-> GetOrEmpty(data.areas_csv), services_csv |-> GetOrEmpty(data.services_csv),
     owner_name |-> GetOrEmpty(data.owner_name)]

\* Mutant: only a booking that is still received is updated.
UpdateAssignment_NoReassign(tbl, booking_id, technician_id) ==
    [i \in DOMAIN tbl |->
        IF booking_id = JStr(i) /\ tbl[i].status = "received"
        THEN [tbl[i] EXCEPT !.status = "assigned", !.assigned_to = technician_id]
        ELSE tbl[i]]

\* Mutant: the status is set and the assignee is left as it was.
UpdateAssignment_StatusOnly(tbl, booking_id, technician_id) ==
    [i \in DOMAIN tbl |->
        IF booking_id = JStr(i)
        THEN [tbl[i] EXCEPT !.status = "assigned"]
        ELSE tbl[i]]

\* UPDATE bookings SET status=?, assigned_to=? WHERE id=?
UpdateAssignment(tbl, booking_id, technician_id) ==
    [i \in DOMAIN tbl |->
        IF booking_id = JStr(i)
        THEN [tbl[i] EXCEPT !.status = "assigned", !.assigned_to = technician_id]
        ELSE tbl[i]]

\* Does WHERE id=? select a row
Found(tbl, id) == id.k = "str" /\ id.s \in DOMAIN tbl

\* SELECT * FROM <tbl> WHERE id=? ... fetchone(): <<row>>, or <<>> for None
FetchOne(tbl, id) == IF Found(tbl, id) THEN <<tbl[id.s]>> ELSE << >>

\* SELECT b.*, s.title as service_name FROM bookings b LEFT JOIN services s ...
BookingListing(tbl) ==
    { [row |-> tbl[i], service_name |-> ServiceName(tbl[i].service_id)] : i \in DOMAIN tbl }

\* SELECT * FROM technicians
TechnicianListing(tbl) == { tbl[i] : i \in DOMAIN tbl }

----------------------------------------------------------------------------
\* Notification gateway

WhatsAppPrefix == <<"whatsapp:">>

\* len(user_phone_raw) >= 10
MinLenWithCountryCode == 10

\* The customer's address for the provider.
UserTo(phone) ==
    IF StartsWith(phone, <<"+">>)
    THEN WhatsAppPrefix \o phone
    ELSE IF StartsWith(phone, <<"9", "1">>) /\ Len(phone) >= MinLenWithCountryCode
         THEN WhatsAppPrefix \o <<"+">> \o phone
         ELSE WhatsAppPrefix \o <<"+", "9", "1">> \o phone

\* send_whatsapp_via_twilio: False without a client; otherwise True when the
\* provider accepts the message and False when messages.create raises.
send_whatsapp_via_twilio(accepted) ==
    IF ~env.twilio_client THEN FALSE ELSE accepted

\* if twilio_client and TWILIO_WHATSAPP_FROM:
GatewayConfigured == env.twilio_client /\ env.TWILIO_WHATSAPP_FROM # <<>>

\* twilio_sent = bool(sent1 or sent2), FALSE when nothing was attempted
TwilioSent(accepted1, accepted2) ==
    IF GatewayConfigured
    THEN send_whatsapp_via_twilio(accepted1) \/ send_whatsapp_via_twilio(accepted2)
    ELSE FALSE

Message(to, body, media) == [to |-> to, body |-> body, media |-> media]

\* The messages the provider took: the confirmation (with the brand logo when
\* one is configured) and the job-id follow-up.
Dispatched(bid, phone, accepted1, accepted2) ==
    IF GatewayConfigured
    THEN { Message(UserTo(phone), <<"booked">>, env.BRAND_LOGO_URL) :
              x \in { y \in {1} : send_whatsapp_via_twilio(accepted1) } }
         \cup
         { Message(UserTo(phone), <<"recorded", bid>>, <<>>) :
              x \in { y \in {2} : send_whatsapp_via_twilio(accepted2) } }
    ELSE {}

\* wa_link = f"https://wa.me/{admin_wh}?text={text_enc}" if admin_wh else ""
AdminLink(bid, name, phone, service_id, address, pincode) ==
    IF env.ADMIN_WHATSAPP # <<>>
    THEN [to |-> env.ADMIN_WHATSAPP, text |-> <<bid, name, phone, service_id, address, pincode>>]
    ELSE NoLink

\* tech_phone = t["phone"] if t else ""; the link is "" without a phone
TechnicianLink(b, tech_phone) ==
    IF Truthy(tech_phone)
    THEN [to |-> tech_phone.s, text |-> <<b.id, b.name, b.phone, b.address>>]
    ELSE NoLink

----------------------------------------------------------------------------
\* Handlers

\* if not (name and phone and address and pincode and service_id)
MissingFields(name, phone, address, pincode, service_id) ==
    ~(name # <<>> /\ phone # <<>> /\ address # <<>> /\ pincode # <<>> /\ Truthy(service_id))

\* POST /api/book
create_booking(Inputs) ==
    /\ req = NoRequest
    /\ \E data \in Inputs :
        LET name == Field(data.name)
            phone == Field(data.phone)
            address == Field(data.address)
            pincode == Field(data.pincode)
            service_id == data.service_id
        IN  /\ req' = Request("book", JNull, JNull, data)
            /\ UNCHANGED <<technicians, env, threads>>
            /\ IF MissingFields(name, phone, address, pincode, service_id)
               THEN /\ resp' = MissingFieldsResponse
                    /\ outbox' = {}
                    /\ UNCHANGED bookings
               ELSE \E u \in 1..NumPrefixes :
                    LET bid == BookingId(u)
                    IN  IF bid \in DOMAIN bookings
                        THEN \* PRIMARY KEY conflict: sqlite3.IntegrityError, uncaught
                             /\ resp' = ServerError("IntegrityError")
                             /\ outbox' = {}
                             /\ UNCHANGED bookings
                        ELSE \E accepted1 \in BOOLEAN, accepted2 \in BOOLEAN :
                             /\ bookings' = InsertRow(bookings,
                                    BookingRow(bid, name, phone, address, pincode, service_id))
                             /\ outbox' = Dispatched(bid, phone, accepted1, accepted2)
                             /\ resp' = [Response(200, TRUE, "") EXCEPT
                                    !.id = JStr(bid),
                                    !.wa_link = AdminLink(bid, name, phone, service_id,
                                                          address, pincode),
                                    !.twilio_sent = TwilioSent(accepted1, accepted2)]

\* GET /api/services
services ==
    /\ req = NoRequest
    /\ req' = Request("services", JNull, JNull, JNull)
    /\ resp' = [Response(200, TRUE, "") EXCEPT !.rows = { ServiceRows[i] : i \in DOMAIN ServiceRows }]
    /\ outbox' = {}
    /\ UNCHANGED <<bookings, technicians, env, threads>>

\* GET /admin/bookings
admin_bookings(Tokens) ==
    /\ req = NoRequest
    /\ \E tok \in Tokens :
        /\ req' = Request("bookings", tok[1], tok[2], JNull)
        /\ resp' = IF ~check_admin_token(tok[1], tok[2])
                   THEN Unauthorized
                   ELSE [Response(200, TRUE, "") EXCEPT !.rows = BookingListing(bookings)]
        /\ outbox' = {}
        /\ UNCHANGED <<bookings, technicians, env, threads>>

\* GET /admin/technicians
admin_techs_get(Tokens) ==
    /\ req = NoRequest
    /\ \E tok \in Tokens :
        /\ req' = Request("techs", tok[1], tok[2], JNull)
        /\ resp' = IF ~check_admin_token(tok[1], tok[2])
                   THEN Unauthorized
                   ELSE [Response(200, TRUE, "") EXCEPT !.rows = TechnicianListing(technicians)]
        /\ outbox' = {}
        /\ UNCHANGED <<bookings, technicians, env, threads>>

\* POST /admin/technicians
admin_techs_post(Tokens, Inputs) ==
    /\ req = NoRequest
    /\ \E tok \in Tokens, data \in Inputs :
        /\ req' = Request("add_tech", tok[1], tok[2], data)
        /\ outbox' = {}
        /\ UNCHANGED <<bookings, env, threads>>
        /\ IF ~check_admin_token(tok[1], tok[2])
           THEN /\ resp' = Unauthorized
                /\ UNCHANGED technicians
           ELSE \E u \in 1..NumTechIds :
                    LET tid == TechId(u)
                    IN  /\ tid \notin DOMAIN technicians
                        /\ technicians' = InsertRow(technicians, TechnicianRow(tid, data))
                        /\ resp' = [Response(200, TRUE, "") EXCEPT !.id = JStr(tid)]

\* What admin_assign answers after the UPDATE is committed: b['id'] on a
\* missing booking raises TypeError, uncaught.
AssignResponse(b, t) ==
    LET tech_phone == IF t # << >> THEN t[1].phone ELSE JStr(<<>>)
    IN  IF b = << >>
        THEN ServerError("TypeError")
        ELSE [Response(200, TRUE, "") EXCEPT !.wa_link = TechnicianLink(b[1], tech_phone)]

\* POST /admin/assign
admin_assign(Tokens, Inputs) ==
    /\ req = NoRequest
    /\ \E tok \in Tokens, data \in Inputs :
        LET booking_id == data.booking_id
            technician_id == data.technician_id
        IN  /\ req' = Request("assign", tok[1], tok[2], data)
            /\ outbox' = {}
            /\ UNCHANGED <<technicians, env, threads>>
            /\ IF ~check_admin_token(tok[1], tok[2])
               THEN /\ resp' = Unauthorized
                    /\ UNCHANGED bookings
               ELSE IF ~(Truthy(booking_id) /\ Truthy(technician_id))
               THEN /\ resp' = MissingFieldsResponse
                    /\ UNCHANGED bookings
               ELSE /\ bookings' = UpdateAssignment(bookings, booking_id, technician_id)
                    /\ resp' = AssignResponse(FetchOne(bookings', booking_id),
                                              FetchOne(technicians, technician_id))

\* The response leaves; the server waits for the next request.
Deliver ==
    /\ req # NoRequest
    /\ req' = NoRequest
    /\ resp' = NoResponse
    /\ outbox' = {}
    /\ UNCHANGED <<bookings, technicians, env, threads>>

----------------------------------------------------------------------------
\* The same handlers on the threads of the threaded server.  Each request has
\* its own connection; a statement with its commit is one step, and requests
\* on other threads may run between the steps of a handler.

Threads == {"t1", "t2"}

IdleThread == [pc |-> "idle", req |-> NoRequest, bid |-> JNull, b |-> << >>, resp |-> NoResponse]

Done(request, response) == [IdleThread EXCEPT !.pc = "done", !.req = request, !.resp = response]

\* create_booking up to conn.commit()
book_insert(t, Inputs) ==
    /\ threads[t].pc = "idle"
    /\ \E data \in Inputs :
        LET name == Field(data.name)
            phone == Field(data.phone)
            address == Field(data.address)
            pincode == Field(data.pincode)
            service_id == data.service_id
            request == Request("book", JNull, JNull, data)
        IN  /\ UNCHANGED <<technicians, env, outbox, req, resp>>
            /\ IF MissingFields(name, phone, address, pincode, service_id)
               THEN /\ threads' = [threads EXCEPT ![t] = Done(request, MissingFieldsResponse)]
                    /\ UNCHANGED bookings
               ELSE \E u \in 1..NumPrefixes :
                    LET bid == BookingId(u)
                    IN  IF bid \in DOMAIN bookings
                        THEN /\ threads' = [threads EXCEPT ![t] =
                                    Done(request, ServerError("IntegrityError"))]
                             /\ UNCHANGED bookings
                        ELSE /\ bookings' = InsertRow(bookings,
                                    BookingRow(bid, name, phone, address, pincode, service_id))
                             /\ threads' = [threads EXCEPT ![t] =
                                    [IdleThread EXCEPT !.pc = "notify", !.req = request,
                                                       !.bid = JStr(bid)]]

\* create_booking from the admin link to the response
book_notify(t) ==
    /\ threads[t].pc = "notify"
    /\ \E accepted1 \in BOOLEAN, accepted2 \in BOOLEAN :
        LET data == threads[t].req.data
            bid == threads[t].bid.s
            phone == Field(data.phone)
        IN  /\ outbox' = outbox \cup Dispatched(bid, phone, accepted1, accepted2)
            /\ threads' = [threads EXCEPT ![t] =
                   Done(threads[t].req,
                        [Response(200, TRUE, "") EXCEPT
                            !.id = JStr(bid),
                            !.wa_link = AdminLink(bid, Field(data.name), phone, data.service_id,
                                                  Field(data.address), Field(data.pincode)),
                            !.twilio_sent = TwilioSent(accepted1, accepted2)])]
            /\ UNCHANGED <<bookings, technicians, env, req, resp>>

\* admin_techs, POST: one INSERT and its commit
tech_insert(t, Tokens, Inputs) ==
    /\ threads[t].pc = "idle"
    /\ \E tok \in Tokens, data \in Inputs :
        LET request == Request("add_tech", tok[1], tok[2], data)
        IN  /\ UNCHANGED <<bookings, env, outbox, req, resp>>
            /\ IF ~check_admin_token(tok[1], tok[2])
               THEN /\ threads' = [threads EXCEPT ![t] = Done(request, Unauthorized)]
                    /\ UNCHANGED technicians
               ELSE \E u \in 1..NumTechIds :
                        LET tid == TechId(u)
                        IN  /\ tid \notin DOMAIN technicians
                            /\ technicians' = InsertRow(technicians, TechnicianRow(tid, data))
                            /\ threads' = [threads EXCEPT ![t] =
                                   Done(request, [Response(200, TRUE, "") EXCEPT !.id = JStr(tid)])]

\* admin_assign up to conn.commit()
assign_update(t, Tokens, Inputs) ==
    /\ threads[t].pc = "idle"
    /\ \E tok \in Tokens, data \in Inputs :
        LET request == Request("assign", tok[1], tok[2], data)
        IN  /\ UNCHANGED <<technicians, env, outbox, req, resp>>
            /\ IF ~check_admin_token(tok[1], tok[2])
               THEN /\ threads' = [threads EXCEPT ![t] = Done(request, Unauthorized)]
                    /\ UNCHANGED bookings
               ELSE IF ~(Truthy(data.booking_id) /\ Truthy(data.technician_id))
               THEN /\ threads' = [threads EXCEPT ![t] = Done(request, MissingFieldsResponse)]
                    /\ UNCHANGED bookings
               ELSE /\ bookings' = UpdateAssignment(bookings, data.booking_id, data.technician_id)
                    /\ threads' = [threads EXCEPT ![t] =
                                       [IdleThread EXCEPT !.pc = "select_b", !.req = request]]

\* b = conn.execute("SELECT * FROM bookings WHERE id=?").fetchone()
assign_select_b(t) ==
    /\ threads[t].pc = "select_b"
    /\ threads' = [threads EXCEPT ![t].pc = "select_t",
                                  ![t].b = FetchOne(bookings, threads[t].req.data.booking_id)]
    /\ UNCHANGED <<bookings, technicians, env, outbox, req, resp>>

\* t = conn.execute("SELECT * FROM technicians WHERE id=?").fetchone(), and the response
assign_select_t(t) ==
    /\ threads[t].pc = "select_t"
    /\ threads' = [threads EXCEPT ![t] =
           Done(threads[t].req,
                AssignResponse(threads[t].b,
                               FetchOne(technicians, threads[t].req.data.technician_id)))]
    /\ UNCHANGED <<bookings, technicians, env, outbox, req, resp>>

\* The thread's response leaves; the thread takes the next request.
thread_deliver(t) ==
    /\ threads[t].pc = "done"
    /\ threads' = [threads EXCEPT ![t] = IdleThread]
    /\ UNCHANGED <<bookings, technicians, env, outbox, req, resp>>

----------------------------------------------------------------------------
\* Requests and configurations

TextBad == { JNull, JStr(<<>>), JStr(<<" ">>) }

Names == TextBad \cup { JStr(<<" ", "A", " ", "B", " ">>) }

Phones == TextBad \cup { JStr(<<"+", "1", "5">>),
                         JStr(<<"9", "1", "9", "8", "7", "6", "5", "4", "3", "2", " ">>),
                         JStr(<<" ", "9", "1">>) }

Addresses == TextBad \cup { JStr(<<"X", " ">>) }

Pincodes == TextBad \cup { JStr(<<" ", "1", "1", "0">>) }

ServiceIds == { JNull, JStr(<<>>), JInt(0), JInt(1), JInt(9) }

\* Every body over these values.
AllBookInputs ==
    [name : Names, phone : Phones, address : Addresses, pincode : Pincodes,
     service_id : ServiceIds]

ValidBooking ==
    [name |-> JStr(<<" ", "A", " ", "B", " ">>), phone |-> JStr(<<"+", "1", "5">>),
     address |-> JStr(<<"X", " ">>), pincode |-> JStr(<<" ", "1", "1", "0">>),
     service_id |-> JInt(1)]

SomeBookInputs ==
    { ValidBooking, [ValidBooking EXCEPT !.name = JNull],
      [ValidBooking EXCEPT !.service_id = JStr(<<"2">>)] }

Secret == <<"s">>

TokenValues == { JNull, JStr(<<>>), JStr(Secret), JStr(<<"x">>) }

AllTokens == TokenValues \X TokenValues

SomeTokens == { <<JStr(Secret), JNull>>, <<JNull, JNull>> }

AssignInputs ==
    [booking_id : { JNull, JStr(<<>>) } \cup { JStr(i) : i \in BookingIdSpace },
     technician_id : { JNull, JStr(<<>>) } \cup { JStr(i) : i \in TechIdSpace }]

SomeAssignInputs ==
    { d \in AssignInputs : Truthy(d.booking_id) /\ Truthy(d.technician_id) }

TechInputs ==
    [name : { JStr(<<"T">>) }, phone : { JNull, JStr(<<"9", "1", "7">>) },
     areas_csv : { JNull }, services_csv : { JStr(<<"ac_clean">>) }, owner_name : { JNull }]

Config(token, client, from, wh, logo) ==
    [ADMIN_TOKEN |-> token, twilio_client |-> client, TWILIO_WHATSAPP_FROM |-> from,
     ADMIN_WHATSAPP |-> wh, BRAND_LOGO_URL |-> logo]

GatewayConfigs ==
    { Config(Secret, FALSE, <<>>, <<>>, <<>>),
      Config(Secret, FALSE, <<"whatsapp:+1415">>, <<"9198">>, <<>>),
      Config(Secret, TRUE, <<>>, <<>>, <<"logo">>),
      Config(Secret, TRUE, <<"whatsapp:+1415">>, <<"9198">>, <<>>),
      Config(Secret, TRUE, <<"whatsapp:+1415">>, <<>>, <<"logo">>) }

TokenConfigs ==
    { Config(<<>>, FALSE, <<>>, <<>>, <<>>), Config(Secret, FALSE, <<>>, <<>>, <<>>) }

----------------------------------------------------------------------------
\* Specifications

\* init_db on a fresh file: empty bookings and technicians, seeded services.
InitWith(Configs) ==
    /\ bookings = << >>
    /\ technicians = << >>
    /\ env \in Configs
    /\ outbox = {}
    /\ req = NoRequest
    /\ resp = NoResponse
    /\ threads = [t \in Threads |-> IdleThread]

\* The booking and assignment workflow.
Init == InitWith({ Config(Secret, TRUE, <<"whatsapp:+1415">>, <<"9198">>, <<>>) })

Next ==
    \/ create_booking(SomeBookInputs)
    \/ services
    \/ admin_bookings(SomeTokens)
    \/ admin_techs_get(SomeTokens)
    \/ admin_techs_post(SomeTokens, TechInputs)
    \/ admin_assign(SomeTokens, AssignInputs)
    \/ Deliver

Spec == Init /\ [][Next]_vars

\* Every booking request, under every gateway configuration.
InitBook == InitWith(GatewayConfigs)

NextBook ==
    \/ create_booking(AllBookInputs)
    \/ Deliver

SpecBook == InitBook /\ [][NextBook]_vars

\* Every way of presenting a token, with and without a configured secret.
InitAdmin == InitWith(TokenConfigs)

NextAdmin ==
    \/ create_booking({ ValidBooking })
    \/ admin_bookings(AllTokens)
    \/ admin_techs_get(AllTokens)
    \/ admin_techs_post(AllTokens, TechInputs)
    \/ admin_assign(AllTokens, SomeAssignInputs)
    \/ Deliver

SpecAdmin == InitAdmin /\ [][NextAdmin]_vars

\* Booking and assignment requests running concurrently.
InitThreads == InitWith({ Config(Secret, FALSE, <<>>, <<>>, <<>>) })

NextThreads ==
    \E t \in Threads :
        \/ book_insert(t, { ValidBooking })
        \/ book_notify(t)
        \/ tech_insert(t, { <<JStr(Secret), JNull>> }, { d \in TechInputs : d.phone = JNull })
        \/ assign_update(t, { <<JStr(Secret), JNull>> }, SomeAssignInputs)
        \/ assign_select_b(t)
        \/ assign_select_t(t)
        \/ thread_deliver(t)

SpecThreads == InitThreads /\ [][NextThreads]_vars

----------------------------------------------------------------------------
\* Properties

AdminOps == {"bookings", "techs", "add_tech", "assign"}

TextFields == {"name", "phone", "address", "pincode"}

\* A field the client left out, left empty or filled with whitespace.
Blank(v) == v.k = "null" \/ (v.k = "str" /\ v.s \in { <<>>, <<" ">> })

BlankFields(d) == { f \in TextFields \cup {"service_id"} : Blank(d[f]) }

\* The request carries the four text fields non-blank and a service id that is
\* neither absent nor empty.
NothingBlank(d) == BlankFields(d) = {}

\* A row of bookings that was not there before the step.
Added == DOMAIN bookings' \ DOMAIN bookings

\* Every row that was there before the step is there after it, unchanged.
OldRowsKept == \A i \in DOMAIN bookings : i \in DOMAIN bookings' /\ bookings'[i] = bookings[i]

\* C1: an authorized assignment with a technician id and a booking id that is
\* not in the store answers NotFound (404) and writes nothing.
C1_NotFoundNoWrite ==
    [][ ( /\ req'.op = "assign"
          /\ req.op = "none"
          /\ check_admin_token(req'.hdr, req'.qry)
          /\ Truthy(req'.data.technician_id)
          /\ Truthy(req'.data.booking_id)
          /\ ~Found(bookings, req'.data.booking_id) )
        => ( /\ resp'.code = 404
             /\ bookings' = bookings
             /\ technicians' = technicians ) ]_vars

\* C2: every booking whose assigned_to is set names a technician of the store.
C2_AssigneeExists ==
    \A i \in DOMAIN bookings :
        bookings[i].assigned_to # JNull => Found(technicians, bookings[i].assigned_to)

\* C3: a booking request with a text field absent, empty or all whitespace, or
\* with service_id absent or empty, is answered 400 "Missing fields"; no row is
\* written and no message is dispatched.
C3_BlankFieldRejected ==
    [][ ( /\ req'.op = "book"
          /\ req.op = "none"
          /\ BlankFields(req'.data) # {} )
        => ( /\ resp' = MissingFieldsResponse
             /\ bookings' = bookings
             /\ technicians' = technicians
             /\ outbox' = {} ) ]_vars

C3_Witness ==
    /\ req.op = "book"
    /\ BlankFields(req.data) = {"pincode"}
    /\ req.data.pincode = JStr(<<" ">>)
    /\ resp.code = 400
    /\ ~resp.ok
    /\ DOMAIN bookings # {}

\* C4: a booking request with nothing blank succeeds and adds exactly one row,
\* holding the trimmed fields, status received and no assignee; the rows that
\* were there stay as they were.
C4_ValidBookingStored ==
    [][ ( /\ req'.op = "book"
          /\ req.op = "none"
          /\ NothingBlank(req'.data) )
        => ( /\ resp'.code = 200
             /\ resp'.ok
             /\ OldRowsKept
             /\ Cardinality(Added) = 1
             /\ \A i \in Added :
                    /\ \A f \in TextFields : bookings'[i][f] = Strip(req'.data[f].s)
                    /\ bookings'[i].status = "received"
                    /\ bookings'[i].assigned_to = JNull ) ]_vars

\* A token is presented where the header or the query argument is non-empty text.
Presents(v, token) == v.k = "str" /\ v.s # <<>> /\ v.s = token

\* C5: an admin request that presents no token, or only tokens that differ
\* from the configured secret (configured or not), is answered with the one
\* 401 Unauthorized response, and nothing is written.
C5_NoOrWrongTokenRejected ==
    [][ ( /\ req'.op \in AdminOps
          /\ req.op = "none"
          /\ ~Presents(req'.hdr, env.ADMIN_TOKEN)
          /\ ~Presents(req'.qry, env.ADMIN_TOKEN) )
        => ( /\ resp' = Unauthorized
             /\ bookings' = bookings
             /\ technicians' = technicians ) ]_vars

C5_Witness ==
    /\ req.op = "assign"
    /\ req.hdr = JNull
    /\ req.qry = JStr(<<"x">>)
    /\ env.ADMIN_TOKEN = <<>>
    /\ Found(bookings, req.data.booking_id)
    /\ resp = Unauthorized
    /\ bookings[req.data.booking_id.s].status = "received"

\* A booking request whose fields are all filled in and whose service id is
\* not zero.
ValidInput(d) == NothingBlank(d) /\ d.service_id # JInt(0)

\* C6: every booking request with valid input returns a booking id that no
\* earlier row carries (so the ids returned are pairwise distinct).
C6_FreshIdReturned ==
    [][ ( /\ req'.op = "book"
          /\ req.op = "none"
          /\ ValidInput(req'.data) )
        => ( /\ resp'.id.k = "str"
             /\ resp'.id.s \notin DOMAIN bookings
             /\ resp'.id.s \in DOMAIN bookings' ) ]_vars

\* C7: a successful assignment leaves the booking assigned to the technician
\* named, also when it was assigned before; nothing but a successful
\* assignment of that booking changes its status or assignee; and the booking
\* listing shows every row as stored.
C7_AssignmentShown ==
    [][ /\ ( req.op = "none" /\ req'.op = "assign" /\ resp'.ok )
            => ( /\ Found(bookings, req'.data.booking_id)
                 /\ bookings'[req'.data.booking_id.s].status = "assigned"
                 /\ bookings'[req'.data.booking_id.s].assigned_to = req'.data.technician_id )
        /\ \A i \in DOMAIN bookings :
              ( \/ bookings'[i].status # bookings[i].status
                \/ bookings'[i].assigned_to # bookings[i].assigned_to )
              => ( req'.op = "assign" /\ req'.data.booking_id = JStr(i) /\ resp'.ok )
        /\ ( req.op = "none" /\ req'.op = "bookings" /\ resp'.ok )
            => ( /\ \A i \in DOMAIN bookings : \E r \in resp'.rows : r.row = bookings[i]
                 /\ \A r \in resp'.rows : r.row.id \in DOMAIN bookings
                                            /\ r.row = bookings[r.row.id] ) ]_vars

C7_Witness ==
    /\ req.op = "bookings"
    /\ resp.ok
    /\ \E r \in resp.rows : r.row.status = "assigned" /\ r.row.assigned_to = JStr(TechId(2))
    /\ \E r \in resp.rows : r.row.status = "received"

\* C8: a booking request with valid input is stored and answered with success
\* whatever the provider does, and twilio_sent is true exactly when the gateway
\* is configured and the provider accepted at least one of the two messages.
C8_ProviderIndependent ==
    ( req.op = "book" /\ ValidInput(req.data) )
    => ( /\ resp.code = 200
         /\ resp.ok
         /\ resp.id.k = "str"
         /\ resp.id.s \in DOMAIN bookings
         /\ resp.twilio_sent <=> (GatewayConfigured /\ outbox # {}) )

\* C9 as stated: with a secret configured, the secret in the header or in the
\* query argument authorizes, whatever the other one carries.
C9_EitherPlaceAuthorizes ==
    ( /\ req.op \in AdminOps
      /\ env.ADMIN_TOKEN # <<>>
      /\ Presents(req.hdr, env.ADMIN_TOKEN) \/ Presents(req.qry, env.ADMIN_TOKEN) )
    => resp # Unauthorized

\* C9 amended: with a secret configured, the secret in the header authorizes
\* whatever the query argument carries, and the secret in the query argument
\* authorizes when the header is absent or empty.
C9_HeaderFirstAuthorizes ==
    ( /\ req.op \in AdminOps
      /\ env.ADMIN_TOKEN # <<>>
      /\ \/ Presents(req.hdr, env.ADMIN_TOKEN)
         \/ ( ~Truthy(req.hdr) /\ Presents(req.qry, env.ADMIN_TOKEN) ) )
    => resp # Unauthorized

C9_Witness ==
    /\ req.op = "bookings"
    /\ env.ADMIN_TOKEN = Secret
    /\ req.hdr = JStr(<<>>)
    /\ req.qry = JStr(Secret)
    /\ resp.code = 200
    /\ resp.rows # {}

\* C10: under every interleaving, each booking is received or assigned, it is
\* assigned exactly when its assignee is set, and an assigned booking stays
\* assigned.
C10_StatusWithAssignee ==
    [][ /\ \A i \in DOMAIN bookings' :
              /\ bookings'[i].status \in {"received", "assigned"}
              /\ bookings'[i].status = "assigned" <=> bookings'[i].assigned_to # JNull
        /\ \A i \in DOMAIN bookings :
              bookings[i].status = "assigned"
              => ( i \in DOMAIN bookings' /\ bookings'[i].status = "assigned" ) ]_vars

\* Two assignments of one booking to different technicians are in flight while
\* the booking is stored as assigned.
C10_Witness ==
    /\ threads["t1"].pc = "select_b"
    /\ threads["t2"].pc = "select_t"
    /\ threads["t1"].req.data.booking_id = threads["t2"].req.data.booking_id
    /\ threads["t1"].req.data.technician_id # threads["t2"].req.data.technician_id
    /\ Found(bookings, threads["t1"].req.data.booking_id)
    /\ \E i \in DOMAIN bookings : bookings[i].status = "received"

====
